---- MODULE Spec2Model ----
(***************************************************************************)
(* Retrieval pipeline and chat sessions of conversation-ai-chatbot:        *)
(*   server/utils/vectorstore.py        FAISSVectorStore, VectorStoreManager*)
(*   server/utils/document_processor.py TextSplitter, DocumentProcessor     *)
(*   server/ai/qa_rag.py                RAGSystem                           *)
(*   server/ai/memory.py                ConversationMemory, MemoryManager   *)
(*   server/routes/chat.py, upload.py   the HTTP handlers                   *)
(*                                                                         *)
(* Spec          the vector store: add_documents, delete_document,         *)
(*               save_index, load_index, construction on a directory       *)
(* SpecFault     the same store (flat index, one dimension) with a process *)
(*               that dies inside save_index and artifacts damaged outside *)
(* SpecSplit     TextSplitter.split_text run one loop iteration at a time, *)
(*               followed by RAGSystem.add_text_content's use of the chunks*)
(* SpecSplitFair SpecSplit with a call that keeps running once started     *)
(* SpecIngest    add_text_content on stores that hold documents already    *)
(* SpecContext   RAGSystem.retrieve_context, one loop iteration at a time  *)
(* SpecChat      POST /chat and the session routes on the session memories *)
(* SpecRace      add_documents and similarity_search run by threads, one   *)
(*               statement at a time                                       *)
(* SpecUpload    POST /upload and POST /chat/rag/search in a server that   *)
(*               may die inside save_index and is started again            *)
(***************************************************************************)
EXTENDS Integers, Sequences, FiniteSets, TLC

VARIABLES
  store,      \* the FAISSVectorStore object (its attributes)
  faissFile,  \* persist_directory / "faiss.index"
  metaFile,   \* persist_directory / "metadata.pkl"
  hist,       \* the last operation, its arguments and whether it returned normally
  tomb,       \* per document id: was it deleted, and was load_index run since
  faults,     \* number of times the artifacts were damaged from outside
  sp,         \* TextSplitter.split_text in progress, and the ingest that follows
  rc,         \* RAGSystem.retrieve_context in progress
  chat,       \* memory_manager.memories and the last response of each session
  th          \* threads running add_documents and similarity_search on one store

vars == <<store, faissFile, metaFile, hist, tomb, faults, sp, rc, chat, th>>

(***************************************************************************)
(* Bounds of the model                                                     *)
(***************************************************************************)
MaxSlots == 2      \* vectors the numeric store may hold
MaxBatch == 2      \* length of a batch passed to add_documents
MaxIds == 2        \* distinct Document objects
MaxFaults == 1     \* crashes inside save_index and outside damage to the artifacts
MaxK == 2          \* largest k passed to similarity_search

Ids == 1..MaxIds
Dims == {1, 2}                 \* dimensions a store is built with
Coords == {0, 1}               \* coordinates of a vector
IndexTypes == {"flat", "ivf"}
TrainThreshold == 100          \* vectorstore.py:113

\* the vectors of dimension d handed to the store: unit steps along the first axis
Vec(d) == {[i \in 1..d |-> IF i = 1 THEN c ELSE 0] : c \in Coords}
Vectors == UNION {Vec(d) : d \in Dims}

NoEmbedding == <<>>            \* Document.embedding = None
NoDict == <<>>                 \* {}

\* A Document object: uuid, content and metadata are fixed when it is built.
ContentOf(id) == IF id = 1 THEN "alpha" ELSE "beta"
MetaOf(id) == IF id = 1 THEN [source |-> "p"] ELSE [source |-> "q"]
Document(id) ==
  [id |-> id, content |-> ContentOf(id), metadata |-> MetaOf(id), embedding |-> NoEmbedding]

(***************************************************************************)
(* dict helpers                                                            *)
(***************************************************************************)
DictSet(f, k, v) == [x \in (DOMAIN f) \cup {k} |-> IF x = k THEN v ELSE f[x]]
DictDel(f, k) == [x \in (DOMAIN f) \ {k} |-> f[x]]

(***************************************************************************)
(* faiss index objects                                                     *)
(***************************************************************************)
\* faiss.IndexFlatL2(d) / faiss.IndexIVFFlat(quantizer, d, 100)
NewIndex(d, kind) ==
  [d |-> d, kind |-> kind, is_trained |-> (kind = "flat"), vecs |-> <<>>]

ntotal(ix) == Len(ix.vecs)

\* squared Euclidean distance (IndexFlatL2)
RECURSIVE SqDist(_, _)
SqDist(a, b) ==
  IF Len(a) = 0 THEN 0
  ELSE (a[1] - b[1]) * (a[1] - b[1]) + SqDist(Tail(a), Tail(b))

\* index.search(query, k): the k nearest slots by ascending distance; the flat
\* scan visits slots in ascending order and replaces a kept candidate only on a
\* strictly smaller distance, so the lower slot wins a tie.
RECURSIVE Nearest(_, _, _, _)
Nearest(ix, q, k, taken) ==
  LET cand == (0..(ntotal(ix) - 1)) \ taken IN
  IF k = 0 \/ cand = {} THEN <<>>
  ELSE LET best == CHOOSE c \in cand : \A o \in cand :
                     \/ SqDist(q, ix.vecs[c + 1]) < SqDist(q, ix.vecs[o + 1])
                     \/ /\ SqDist(q, ix.vecs[c + 1]) = SqDist(q, ix.vecs[o + 1])
                        /\ c <= o
       IN <<[index |-> best, distance |-> SqDist(q, ix.vecs[best + 1])]>>
            \o Nearest(ix, q, k - 1, taken \cup {best})

(***************************************************************************)
(* FAISSVectorStore                                                        *)
(***************************************************************************)
\* __init__ up to the call of load_index
InitStore(dimension, index_type) ==
  [dimension |-> dimension,
   index_type |-> index_type,
   index |-> NewIndex(dimension, index_type),
   documents |-> NoDict,
   id_to_index |-> NoDict,
   index_to_id |-> NoDict,
   next_index |-> 0]

\* np.array(embeddings, dtype=np.float32) succeeds: the rows have one length
Rectangular(embs) == \A i \in 1..Len(embs) : Len(embs[i]) = Len(embs[1])

\* an add_documents that leaves the untrained IVF index in place: index.add
\* then raises
TrainIfNeededNoFallback(s, embs) ==
  IF s.index_type = "ivf" /\ ~s.index.is_trained /\ Len(embs) >= TrainThreshold
  THEN [s EXCEPT !.index.is_trained = TRUE]
  ELSE s

\* add_documents, lines 111-117: an untrained IVF index is trained or replaced
TrainIfNeeded(s, embs) ==
  IF s.index_type = "ivf" /\ ~s.index.is_trained
  THEN IF Len(embs) >= TrainThreshold
       THEN [s EXCEPT !.index.is_trained = TRUE]
       ELSE [s EXCEPT !.index = NewIndex(s.dimension, "flat")]
  ELSE s

\* add_documents, lines 124-130: the loop over the batch
RECURSIVE StoreLoop(_, _, _, _, _)
StoreLoop(s, docs, embs, start_index, i) ==
  IF i > Len(docs) THEN s
  ELSE LET doc == [docs[i] EXCEPT !.embedding = embs[i]]
           index_pos == start_index + (i - 1)
       IN StoreLoop([s EXCEPT !.documents = DictSet(@, doc.id, doc),
                              !.id_to_index = DictSet(@, doc.id, index_pos),
                              !.index_to_id = DictSet(@, index_pos, doc.id)],
                    docs, embs, start_index, i + 1)

\* add_documents: [ok, s] where ok is FALSE when an exception leaves the method
AddDocuments(s, docs, embs) ==
  IF Len(docs) # Len(embs) THEN [ok |-> FALSE, s |-> s]
  ELSE IF ~Rectangular(embs) THEN [ok |-> FALSE, s |-> s]
  ELSE LET s1 == TrainIfNeeded(s, embs) IN
    IF Len(embs) = 0 \/ Len(embs[1]) # s1.index.d \/ ~s1.index.is_trained
    THEN [ok |-> FALSE, s |-> s1]           \* index.add raises
    ELSE LET s2 == [s1 EXCEPT !.index.vecs = @ \o embs]
             s3 == StoreLoop(s2, docs, embs, s.next_index, 1)
         IN [ok |-> TRUE, s |-> [s3 EXCEPT !.next_index = @ + Len(docs)]]

\* the metadata test of similarity_search, lines 160-162
MetaGet(m, k) == IF k \in DOMAIN m THEN m[k] ELSE "None"
Matches(doc, filter) ==
  (DOMAIN filter = {}) \/ \A k \in DOMAIN filter : MetaGet(doc.metadata, k) = filter[k]

\* similarity_search, lines 150-166: the loop over the hits
RECURSIVE Collect(_, _, _)
Collect(s, hits, filter) ==
  IF hits = <<>> THEN <<>>
  ELSE LET h == Head(hits)
           known == /\ h.index \in DOMAIN s.index_to_id
                    /\ s.index_to_id[h.index] \in DOMAIN s.documents
       IN (IF known /\ Matches(s.documents[s.index_to_id[h.index]], filter)
           THEN <<[doc |-> s.documents[s.index_to_id[h.index]], distance |-> h.distance]>>
           ELSE <<>>)
          \o Collect(s, Tail(hits), filter)

Min(a, b) == IF a <= b THEN a ELSE b

\* similarity_search for a query of the index's dimension and k >= 1
SimilaritySearch(s, q, k, filter) ==
  IF ntotal(s.index) = 0 THEN <<>>
  ELSE Collect(s, Nearest(s.index, q, Min(k, ntotal(s.index)), {}), filter)

\* delete_document that forgets the document itself and the reverse mapping
DeleteDocumentForwardOnly(s, doc_id) ==
  IF doc_id \in DOMAIN s.documents
  THEN [ok |-> TRUE, raised |-> FALSE, s |-> [s EXCEPT !.id_to_index = DictDel(@, doc_id)]]
  ELSE [ok |-> FALSE, raised |-> FALSE, s |-> s]

\* delete_document that also gives the freed slot number back
DeleteDocumentReusesSlot(s, doc_id) ==
  IF doc_id \in DOMAIN s.documents /\ doc_id \in DOMAIN s.id_to_index
  THEN [ok |-> TRUE, raised |-> FALSE,
        s |-> [s EXCEPT !.documents = DictDel(@, doc_id),
                        !.id_to_index = DictDel(@, doc_id),
                        !.index_to_id = DictDel(@, s.id_to_index[doc_id]),
                        !.next_index = s.id_to_index[doc_id]]]
  ELSE [ok |-> FALSE, raised |-> FALSE, s |-> s]

\* delete_document: [ok, raised, s] where ok is the returned value and raised
\* says that `del self.index_to_id[index_pos]` raised KeyError, after the two
\* deletions before it
DeleteDocument(s, doc_id) ==
  IF doc_id \in DOMAIN s.documents
  THEN LET s1 == [s EXCEPT !.documents = DictDel(@, doc_id)] IN
       IF doc_id \in DOMAIN s.id_to_index
       THEN LET s2 == [s1 EXCEPT !.id_to_index = DictDel(@, doc_id)] IN
            IF s.id_to_index[doc_id] \in DOMAIN s.index_to_id
            THEN [ok |-> TRUE, raised |-> FALSE,
                  s |-> [s2 EXCEPT !.index_to_id = DictDel(@, s.id_to_index[doc_id])]]
            ELSE [ok |-> FALSE, raised |-> TRUE, s |-> s2]
       ELSE [ok |-> TRUE, raised |-> FALSE, s |-> s1]
  ELSE [ok |-> FALSE, raised |-> FALSE, s |-> s]

get_stats(s) ==
  [total_documents |-> Cardinality(DOMAIN s.documents),
   index_size |-> ntotal(s.index),
   dimension |-> s.dimension,
   index_type |-> s.index_type,
   is_trained |-> s.index.is_trained]

(***************************************************************************)
(* The two persistence artifacts                                           *)
(***************************************************************************)
NoIndexPayload == NewIndex(0, "flat")
NoMetaPayload ==
  [documents |-> NoDict, id_to_index |-> NoDict, index_to_id |-> NoDict,
   next_index |-> 0, dimension |-> 0, index_type |-> "flat"]

\* state: "absent" (no file), "corrupt" (unreadable), "ok"
AbsentIndexFile == [state |-> "absent", index |-> NoIndexPayload]
AbsentMetaFile == [state |-> "absent", lacks |-> "none", data |-> NoMetaPayload]

\* Document.to_dict
to_dict(doc) ==
  [id |-> doc.id, content |-> doc.content, metadata |-> doc.metadata,
   has_embedding |-> (doc.embedding # NoEmbedding)]

\* save_index, line 199: faiss.write_index
WrittenIndexFile(s) == [state |-> "ok", index |-> s.index]

\* save_index, lines 202-213: the pickled metadata
WrittenMetaFile(s) ==
  [state |-> "ok", lacks |-> "none",
   data |-> [documents |-> [id \in DOMAIN s.documents |-> to_dict(s.documents[id])],
             id_to_index |-> s.id_to_index,
             index_to_id |-> s.index_to_id,
             next_index |-> s.next_index,
             dimension |-> s.dimension,
             index_type |-> s.index_type]]

\* load_index, lines 236-240: the documents rebuilt from their dicts
RestoredDocuments(data) ==
  [id \in DOMAIN data.documents |->
     [id |-> id, content |-> data.documents[id].content,
      metadata |-> data.documents[id].metadata, embedding |-> NoEmbedding]]

\* load_index that does not restore index_to_id
LoadIndexNoReverseMap(s, fi, fm) ==
  IF fi.state = "ok" /\ fm.state = "ok" /\ fm.lacks = "none"
  THEN [s EXCEPT !.index = fi.index,
                 !.documents = RestoredDocuments(fm.data),
                 !.id_to_index = fm.data.id_to_index,
                 !.next_index = fm.data.next_index]
  ELSE s

\* load_index: statement by statement; an exception ends it where it is raised
\* and is swallowed by the except clause
LoadIndex(s, fi, fm) ==
  IF fi.state = "absent" \/ fm.state = "absent" THEN s
  ELSE IF fi.state = "corrupt" THEN s                       \* read_index raises
  ELSE LET s1 == [s EXCEPT !.index = fi.index] IN
    IF fm.state = "corrupt" THEN s1                         \* pickle.load raises
    ELSE LET s2 == [s1 EXCEPT !.documents = NoDict] IN
      IF fm.lacks = "documents" THEN s2                     \* KeyError
      ELSE LET s3 == [s2 EXCEPT !.documents = RestoredDocuments(fm.data)] IN
        IF fm.lacks = "id_to_index" THEN s3
        ELSE LET s4 == [s3 EXCEPT !.id_to_index = fm.data.id_to_index] IN
          IF fm.lacks = "index_to_id" THEN s4
          ELSE LET s5 == [s4 EXCEPT !.index_to_id = fm.data.index_to_id] IN
            IF fm.lacks = "next_index" THEN s5
            ELSE [s5 EXCEPT !.next_index = fm.data.next_index]

\* whether load_index ran to its end without an exception and read both files
LoadedWhole(fi, fm) ==
  fi.state = "ok" /\ fm.state = "ok" /\ fm.lacks = "none"

\* FAISSVectorStore(dimension, index_type, persist_directory)
Construct(dimension, index_type, fi, fm) ==
  LoadIndex(InitStore(dimension, index_type), fi, fm)


(***************************************************************************)
(* The vector store as a state machine                                     *)
(***************************************************************************)
SeqsUpTo(S, n) == UNION {[1..m -> S] : m \in 0..n}

NoSplit == [pc |-> "off"]
NoRetrieve == [pc |-> "off"]
NoChat == [pc |-> "off"]
NoThreads == [pc |-> "off"]

\* op: the operation; ok: it returned normally (delete_document: it returned
\* True; load_index: it read both artifacts to the end); n: the length of the
\* batch of an add_documents; prev: the operation before a restart
Hist(op, ok, n, prev) == [op |-> op, ok |-> ok, n |-> n, prev |-> prev]

\* A process that starts on an empty persist directory.
Init ==
  /\ \E d \in Dims, t \in IndexTypes : store = Construct(d, t, AbsentIndexFile, AbsentMetaFile)
  /\ faissFile = AbsentIndexFile
  /\ metaFile = AbsentMetaFile
  /\ hist = Hist("init", TRUE, 0, "-")
  /\ tomb = [id \in Ids |-> "no"]
  /\ faults = 0
  /\ sp = NoSplit
  /\ rc = NoRetrieve
  /\ chat = NoChat
  /\ th = NoThreads

CrashOps == {"crash_index_partial", "crash_between", "crash_meta_partial"}

\* the process is alive
Running == hist.op \notin CrashOps

\* store.add_documents(documents, embeddings)
Add(ids, embs) ==
  /\ Running
  /\ ntotal(store.index) + Len(embs) <= MaxSlots
  /\ store.next_index + Len(embs) <= MaxSlots
  /\ LET docs == [i \in 1..Len(ids) |-> Document(ids[i])]
         r == AddDocuments(store, docs, embs)
     IN /\ store' = r.s
        /\ hist' = Hist("add", r.ok, Len(ids), "-")
        /\ tomb' = [id \in Ids |->
                      IF r.ok /\ \E i \in 1..Len(ids) : ids[i] = id THEN "no" ELSE tomb[id]]
  /\ UNCHANGED <<faissFile, metaFile, faults, sp, rc, chat, th>>

\* store.delete_document(doc_id)
Delete(id) ==
  /\ Running
  /\ LET r == DeleteDocument(store, id)
     IN /\ store' = r.s
        /\ hist' = Hist(IF r.raised THEN "delete_raised" ELSE "delete", r.ok, 0, "-")
        /\ tomb' = IF r.ok THEN [tomb EXCEPT ![id] = "deleted"] ELSE tomb
  /\ UNCHANGED <<faissFile, metaFile, faults, sp, rc, chat, th>>

\* store.save_index() running to its end
SaveIndex ==
  /\ Running
  /\ faissFile' = WrittenIndexFile(store)
  /\ metaFile' = WrittenMetaFile(store)
  /\ hist' = Hist("save", TRUE, 0, "-")
  /\ UNCHANGED <<store, tomb, faults, sp, rc, chat, th>>

\* the process dies inside save_index: while faiss.index is being written,
\* between the two writes, or while metadata.pkl is being written
SaveIndexCrash(at) ==
  /\ Running
  /\ faults < MaxFaults
  /\ faults' = faults + 1
  /\ faissFile' = IF at = "index_partial"
                  THEN [state |-> "corrupt", index |-> NoIndexPayload]
                  ELSE WrittenIndexFile(store)
  /\ metaFile' = IF at = "meta_partial"
                 THEN [state |-> "corrupt", lacks |-> "none", data |-> NoMetaPayload]
                 ELSE metaFile
  /\ hist' = Hist("crash_" \o at, FALSE, 0, "-")
  /\ UNCHANGED <<store, tomb, sp, rc, chat, th>>

Reloaded(t) == [id \in Ids |-> IF t[id] = "deleted" THEN "reloaded" ELSE t[id]]

\* store.load_index() called on the live store
Load ==
  /\ Running
  /\ store' = LoadIndex(store, faissFile, metaFile)
  /\ hist' = Hist("load", LoadedWhole(faissFile, metaFile), 0, "-")
  /\ tomb' = Reloaded(tomb)
  /\ UNCHANGED <<faissFile, metaFile, faults, sp, rc, chat, th>>

\* a new process: FAISSVectorStore(dimension, index_type, the same directory),
\* built for dimension d and the index type the deployment is configured with
Restart(d) ==
  /\ store' = Construct(d, store.index_type, faissFile, metaFile)
  /\ hist' = Hist("restart", LoadedWhole(faissFile, metaFile), 0, hist.op)
  /\ tomb' = [id \in Ids |-> "no"]            \* the new object has deleted nothing
  /\ UNCHANGED <<faissFile, metaFile, faults, sp, rc, chat, th>>

DamageKinds ==
  {"rm_index", "rm_meta", "corrupt_index", "corrupt_meta",
   "documents", "id_to_index", "index_to_id", "next_index"}

\* the artifacts are damaged from outside the process: a file is removed, made
\* unreadable, or metadata.pkl is replaced by a pickle that lacks a key
Damage(kind) ==
  /\ Running
  /\ faults < MaxFaults
  /\ faults' = faults + 1
  /\ CASE kind = "rm_index" ->
            faissFile.state # "absent" /\ faissFile' = AbsentIndexFile /\ metaFile' = metaFile
       [] kind = "rm_meta" ->
            metaFile.state # "absent" /\ metaFile' = AbsentMetaFile /\ faissFile' = faissFile
       [] kind = "corrupt_index" ->
            /\ faissFile.state = "ok"
            /\ faissFile' = [state |-> "corrupt", index |-> NoIndexPayload]
            /\ metaFile' = metaFile
       [] kind = "corrupt_meta" ->
            /\ metaFile.state = "ok"
            /\ metaFile' = [state |-> "corrupt", lacks |-> "none", data |-> NoMetaPayload]
            /\ faissFile' = faissFile
       [] OTHER ->
            /\ metaFile.state = "ok" /\ metaFile.lacks = "none"
            /\ metaFile' = [metaFile EXCEPT !.lacks = kind]
            /\ faissFile' = faissFile
  /\ hist' = Hist("damage", TRUE, 0, "-")
  /\ UNCHANGED <<store, tomb, sp, rc, chat, th>>

\* the store in a process that is never killed, on artifacts nobody else touches
Next ==
  \/ \E ids \in SeqsUpTo(Ids, MaxBatch), embs \in SeqsUpTo(Vectors, MaxBatch) : Add(ids, embs)
  \/ \E id \in Ids : Delete(id)
  \/ SaveIndex
  \/ Load
  \/ \E d \in Dims : Restart(d)

Spec == Init /\ [][Next]_vars

\* a flat store that is always built with dimension 1, with crashes inside
\* save_index and damaged artifacts
InitFault ==
  /\ Init
  /\ store.index_type = "flat"
  /\ store.dimension = 1

NextFault ==
  \/ \E ids \in SeqsUpTo(Ids, MaxBatch), embs \in SeqsUpTo(Vectors, MaxBatch) : Add(ids, embs)
  \/ \E id \in Ids : Delete(id)
  \/ SaveIndex
  \/ Load
  \/ Restart(store.dimension)
  \/ \E at \in {"index_partial", "between", "meta_partial"} : SaveIndexCrash(at)
  \/ \E kind \in DamageKinds : Damage(kind)

SpecFault == InitFault /\ [][NextFault]_vars

(***************************************************************************)
(* TextSplitter (document_processor.py) and RAGSystem.add_text_content     *)
(* (qa_rag.py).  A text is a sequence of one-character strings, positions  *)
(* are Python's (from 0).                                                  *)
(***************************************************************************)
MaxText == 4       \* length of the text handed to add_text_content
MaxChunk == 3      \* largest chunk_size
MaxOverlap == 3    \* largest chunk_overlap

Chars == {"a", " ", ".", "\n"}
Whitespace == {" ", "\n"}                 \* what str.strip() removes
Texts == SeqsUpTo(Chars, MaxText)
ChunkSizes == 1..MaxChunk
Overlaps == 0..MaxOverlap
Separators == {<<"\n", "\n">>, <<"a">>, <<>>}

SetMin(S) == CHOOSE x \in S : \A y \in S : x <= y
SetMax(S) == CHOOSE x \in S : \A y \in S : x >= y
Max(a, b) == IF a >= b THEN a ELSE b

\* text[a:b]
Slice(text, a, b) == SubSeq(text, a + 1, Min(b, Len(text)))

\* text.rfind(sub, start, end) for 0 <= start <= end <= len(text)
RFind(text, sub, start, end) ==
  LET at == {i \in start..(end - Len(sub)) :
               \A j \in 1..Len(sub) : text[i + j] = sub[j]}
  IN IF at = {} THEN -1 ELSE SetMax(at)

\* positions of s (from 1) that hold no whitespace
Solid(s) == {i \in 1..Len(s) : s[i] \notin Whitespace}

\* a version of strip that returns its argument
StripNothing(s) == s

\* s.strip()
Strip(s) == IF Solid(s) = {} THEN <<>> ELSE SubSeq(s, SetMin(Solid(s)), SetMax(Solid(s)))

\* number of characters strip removes in front
Lead(s) == IF Solid(s) = {} THEN Len(s) ELSE SetMin(Solid(s)) - 1

\* an early return that trims the text and drops it when nothing is left
ShortTextTrimmed(text) == IF Strip(text) = <<>> THEN <<>> ELSE <<Strip(text)>>

\* split_text, lines 61-62: the value returned for a text of at most chunk_size
ShortText(text) == <<text>>

\* split_text, lines 71-82: the break point of a window that ends before the text
BreakPoint(text, separator, start, end) ==
  LET b1 == RFind(text, separator, start, end)
      b2 == RFind(text, <<".">>, start, end)
      b3 == RFind(text, <<" ">>, start, end)
  IN IF b1 # -1 THEN b1 ELSE IF b2 # -1 THEN b2 ELSE IF b3 # -1 THEN b3 ELSE end

\* split_text, lines 68-84: the end of the window that starts at start
WindowEnd(text, chunk_size, separator, start) ==
  LET end == start + chunk_size
  IN IF end < Len(text) THEN BreakPoint(text, separator, start, end) + 1 ELSE end

\* a next window start without the +1 floor
NextStartNoAdvance(start, end, chunk_overlap) == Max(start, end - chunk_overlap)

\* a next window start that jumps past the end of the window
NextStartGap(start, end, chunk_overlap) == Max(start + 1, end + chunk_overlap)

\* split_text, line 89
NextStart(start, end, chunk_overlap) == Max(start + 1, end - chunk_overlap)

\* MockEmbeddings.embed_documents for one text, coordinates in thousandths;
\* hash(text) is some integer fixed by the text
Hash(text) == Len(text) + 7 * Cardinality(Solid(text))
Embed(text, dimension) == [i \in 1..dimension |-> (Hash(text) + (i - 1)) % 1000]

\* the i-th uuid4 drawn by the call: an id no Document has had before
NewId(i) == MaxIds + i

\* a Document whose id does not depend on the chunk
ChunkDocumentOneId(chunks, i) ==
  [id |-> NewId(1), content |-> chunks[i],
   metadata |-> [source_name |-> "text_input", chunk_index |-> i - 1,
                 total_chunks |-> Len(chunks), file_type |-> "text"],
   embedding |-> NoEmbedding]

\* the Document add_texts builds for the i-th chunk
ChunkDocument(chunks, i) ==
  [id |-> NewId(i), content |-> chunks[i],
   metadata |-> [source_name |-> "text_input", chunk_index |-> i - 1,
                 total_chunks |-> Len(chunks), file_type |-> "text"],
   embedding |-> NoEmbedding]

\* the part of add_text_content's result that does not depend on the clock
NoResult == [chunks_created |-> 0, document_ids |-> <<>>, total_characters |-> 0]

\* document_processor.text_splitter as constructed, no call in progress
Splitter(chunk_size, chunk_overlap, separator) ==
  [pc |-> "idle", chunk_size |-> chunk_size, chunk_overlap |-> chunk_overlap,
   separator |-> separator, text |-> <<>>, start |-> 0, chunks |-> <<>>, wins |-> <<>>,
   iters |-> 0, before |-> {}, result |-> NoResult]

InitSplit ==
  /\ store = Construct(1, "flat", AbsentIndexFile, AbsentMetaFile)
  /\ faissFile = AbsentIndexFile
  /\ metaFile = AbsentMetaFile
  /\ hist = Hist("init", TRUE, 0, "-")
  /\ tomb = [id \in Ids |-> "no"]
  /\ faults = 0
  /\ \E cs \in ChunkSizes, co \in Overlaps, sep \in Separators : sp = Splitter(cs, co, sep)
  /\ rc = NoRetrieve
  /\ chat = NoChat
  /\ th = NoThreads

\* add_text_content(content) up to split_text's line 65: the early return, or
\* the entry into the loop
SplitEnter(text) ==
  /\ sp.pc = "idle"
  /\ sp' = IF Len(text) <= sp.chunk_size
           THEN [sp EXCEPT !.pc = "returned", !.text = text, !.chunks = ShortText(text)]
           ELSE [sp EXCEPT !.pc = "loop", !.text = text, !.start = 0, !.chunks = <<>>]
  /\ UNCHANGED <<store, faissFile, metaFile, hist, tomb, faults, rc, chat, th>>

\* one iteration of the while loop, lines 67-89; wins keeps, for each chunk
\* appended, its window and the position of its first character in the text,
\* iters counts the iterations
SplitIterate ==
  /\ sp.pc = "loop"
  /\ LET end == WindowEnd(sp.text, sp.chunk_size, sp.separator, sp.start)
         piece == Slice(sp.text, sp.start, end)
         chunk == Strip(piece)
         start2 == NextStart(sp.start, end, sp.chunk_overlap)
     IN sp' = [sp EXCEPT
                 !.chunks = IF chunk # <<>> THEN Append(@, chunk) ELSE @,
                 !.wins = IF chunk # <<>>
                          THEN Append(@, [start |-> sp.start, end |-> end,
                                          offset |-> sp.start + Lead(piece)])
                          ELSE @,
                 !.start = start2,
                 !.iters = @ + 1,
                 !.pc = IF start2 < Len(sp.text) THEN "loop" ELSE "returned"]
  /\ UNCHANGED <<store, faissFile, metaFile, hist, tomb, faults, rc, chat, th>>

\* the rest of add_text_content once split_text has returned: process_text_content
\* wraps the chunks, no chunk raises ValueError, otherwise add_texts embeds them,
\* calls add_documents and save_index; before keeps the ids stored before the call
AddTextContent ==
  /\ sp.pc = "returned"
  /\ IF sp.chunks = <<>>
     THEN /\ sp' = [sp EXCEPT !.pc = "raised"]
          /\ hist' = Hist("add_text_content", FALSE, 0, "-")
          /\ UNCHANGED <<store, faissFile, metaFile>>
     ELSE LET docs == [i \in 1..Len(sp.chunks) |-> ChunkDocument(sp.chunks, i)]
              embs == [i \in 1..Len(sp.chunks) |-> Embed(sp.chunks[i], store.dimension)]
              r == AddDocuments(store, docs, embs)
          IN /\ store' = r.s
             /\ faissFile' = IF r.ok THEN WrittenIndexFile(r.s) ELSE faissFile
             /\ metaFile' = IF r.ok THEN WrittenMetaFile(r.s) ELSE metaFile
             /\ sp' = [sp EXCEPT
                        !.pc = IF r.ok THEN "added" ELSE "raised",
                        !.before = DOMAIN store.documents,
                        !.result =
                           IF r.ok
                           THEN [chunks_created |-> Len(sp.chunks),
                                 document_ids |-> [i \in 1..Len(docs) |-> docs[i].id],
                                 total_characters |-> Len(sp.text)]
                           ELSE NoResult]
             /\ hist' = Hist("add_text_content", r.ok, Len(sp.chunks), "-")
  /\ UNCHANGED <<tomb, faults, rc, chat, th>>

NextSplit ==
  \/ \E text \in Texts : SplitEnter(text)
  \/ SplitIterate
  \/ AddTextContent

SpecSplit == InitSplit /\ [][NextSplit]_vars

\* stores the RAG system may find when it is constructed: what earlier
\* add_documents calls left in the persist directory
PreStores ==
  LET s0 == InitStore(1, "flat")
      v == [i \in 1..1 |-> 0]
  IN {s0,
      AddDocuments(s0, <<Document(1)>>, <<v>>).s,
      AddDocuments(s0, <<Document(1), Document(2)>>, <<v, v>>).s}

DefaultSeparator == <<"\n", "\n">>

\* add_text_content on a RAG system whose store holds documents already
InitIngest ==
  /\ \E pre \in PreStores :
       /\ faissFile = WrittenIndexFile(pre)
       /\ metaFile = WrittenMetaFile(pre)
       /\ store = Construct(1, "flat", faissFile, metaFile)
  /\ hist = Hist("init", TRUE, 0, "-")
  /\ tomb = [id \in Ids |-> "no"]
  /\ faults = 0
  /\ \E cs \in ChunkSizes : sp = Splitter(cs, 0, DefaultSeparator)
  /\ rc = NoRetrieve
  /\ chat = NoChat
  /\ th = NoThreads

SpecIngest == InitIngest /\ [][NextSplit]_vars

\* a call that has started keeps running: the interpreter executes the next
\* loop iteration and the statements after split_text returns
SpecSplitFair == SpecSplit /\ WF_vars(SplitIterate) /\ WF_vars(AddTextContent)

(***************************************************************************)
(* RAGSystem.retrieve_context (qa_rag.py).  Strings are sequences of       *)
(* one-character strings; the hits are what vector_store.similarity_search *)
(* returned: (content, score) pairs in rank order.                         *)
(***************************************************************************)
MaxHits == 3             \* hits returned by the search
LongLen == 130           \* length of the long content
MinPartialSpace == 100   \* qa_rag.py:192

ContentLens == {0, 2, LongLen}
ContextLimits ==
  {0, 1, MinPartialSpace, MinPartialSpace + 1, MinPartialSpace + 20, LongLen + 5}

Letters == <<"a", "b", "c">>
Content(n) == [i \in 1..n |-> Letters[((i - 1) % 3) + 1]]
ScoreOf(i) == 10 * i
HitSeqs ==
  UNION {{[i \in 1..m |-> [content |-> Content(lens[i]), score |-> ScoreOf(i)]] :
            lens \in [1..m -> ContentLens]} : m \in 0..MaxHits}

\* str(n) for n >= 0
Digits == <<"0", "1", "2", "3", "4", "5", "6", "7", "8", "9">>
RECURSIVE Str(_)
Str(n) == IF n < 10 THEN <<Digits[n + 1]>> ELSE Str(n \div 10) \o <<Digits[(n % 10) + 1]>>

\* f"[Document {n}]: "
Label(n) ==
  <<"[", "D", "o", "c", "u", "m", "e", "n", "t", " ">> \o Str(n) \o <<"]", ":", " ">>

Ellipsis == <<".", ".", ".">>
Blankline == <<"\n", "\n">>

\* s[:n]
SliceTo(s, n) ==
  IF n >= 0 THEN SubSeq(s, 1, Min(n, Len(s))) ELSE SubSeq(s, 1, Max(0, Len(s) + n))

\* sep.join(parts)
RECURSIVE Join(_, _)
Join(parts, sep) ==
  IF parts = <<>> THEN <<>>
  ELSE IF Len(parts) = 1 THEN parts[1]
  ELSE parts[1] \o sep \o Join(Tail(parts), sep)

\* a partial content that keeps remaining_space characters before the ellipsis
PartialContentLong(content, remaining_space) == SliceTo(content, remaining_space) \o Ellipsis

\* retrieve_context, line 193
PartialContent(content, remaining_space) == SliceTo(content, remaining_space - 3) \o Ellipsis

\* a source record whose rank counts from 0
SourceDocFromZero(content, score, i) ==
  [content |-> content, similarity_score |-> score, rank |-> i - 1]

\* retrieve_context, lines 200-204, for the i-th hit (from 1)
SourceDoc(content, score, i) ==
  [content |-> content, similarity_score |-> score, rank |-> i]

\* the RAGSystem as constructed, no retrieve_context in progress
Retriever(max_context_length) ==
  [pc |-> "idle", max_context_length |-> max_context_length, hits |-> <<>>, i |-> 0,
   context_parts |-> <<>>, total_length |-> 0, source_docs |-> <<>>,
   context_string |-> <<>>]

InitContext ==
  /\ store = Construct(1, "flat", AbsentIndexFile, AbsentMetaFile)
  /\ faissFile = AbsentIndexFile
  /\ metaFile = AbsentMetaFile
  /\ hist = Hist("init", TRUE, 0, "-")
  /\ tomb = [id \in Ids |-> "no"]
  /\ faults = 0
  /\ sp = NoSplit
  /\ chat = NoChat
  /\ \E m \in ContextLimits : rc = Retriever(m)
  /\ th = NoThreads

\* retrieve_context up to line 186: the search has returned hits; no hit
\* returns ("", []) at once
RetrieveEnter(hits) ==
  /\ rc.pc = "idle"
  /\ rc' = IF hits = <<>>
           THEN [rc EXCEPT !.pc = "returned"]
           ELSE [rc EXCEPT !.pc = "loop", !.hits = hits, !.i = 1]
  /\ UNCHANGED <<store, faissFile, metaFile, hist, tomb, faults, sp, chat, th>>

\* one iteration of the for loop, lines 188-204
RetrieveIterate ==
  /\ rc.pc = "loop"
  /\ LET content == rc.hits[rc.i].content
         score == rc.hits[rc.i].score
         remaining_space == rc.max_context_length - rc.total_length
     IN rc' =
          IF rc.total_length + Len(content) > rc.max_context_length
          THEN [rc EXCEPT
                  !.context_parts =
                     IF remaining_space > MinPartialSpace
                     THEN Append(@, Label(rc.i) \o PartialContent(content, remaining_space))
                     ELSE @,
                  !.pc = "join"]
          ELSE [rc EXCEPT
                  !.context_parts = Append(@, Label(rc.i) \o content),
                  !.total_length = @ + Len(content),
                  !.source_docs = Append(@, SourceDoc(content, score, rc.i)),
                  !.i = @ + 1,
                  !.pc = IF rc.i + 1 > Len(rc.hits) THEN "join" ELSE "loop"]
  /\ UNCHANGED <<store, faissFile, metaFile, hist, tomb, faults, sp, chat, th>>

\* lines 206-209: the parts are joined and returned with the sources
RetrieveReturn ==
  /\ rc.pc = "join"
  /\ rc' = [rc EXCEPT !.context_string = Join(rc.context_parts, Blankline),
                      !.pc = "returned"]
  /\ UNCHANGED <<store, faissFile, metaFile, hist, tomb, faults, sp, chat, th>>

NextContext ==
  \/ \E hits \in HitSeqs : RetrieveEnter(hits)
  \/ RetrieveIterate
  \/ RetrieveReturn

SpecContext == InitContext /\ [][NextContext]_vars

(***************************************************************************)
(* The chat route (routes/chat.py) and the session memories (ai/memory.py).*)
(* A memory is the message list of its ConversationBufferWindowMemory;     *)
(* reported and cleared remember, per session, the total_messages of its   *)
(* last response and whether its memory was cleared since.                 *)
(***************************************************************************)
MaxTurns == 12           \* chat turns kept in one memory
WindowK == 10            \* memory.py:205

SessionIds == {"s1", "s2"}

\* a window that keeps k messages instead of k exchanges
BufferWindowHalf(messages, k) ==
  IF k > 0 THEN SubSeq(messages, Max(1, Len(messages) - k + 1), Len(messages)) ELSE <<>>

\* ConversationBufferWindowMemory.load_memory_variables: messages[-k * 2:]
BufferWindow(messages, k) ==
  IF k > 0 THEN SubSeq(messages, Max(1, Len(messages) - 2 * k + 1), Len(messages)) ELSE <<>>

\* ConversationMemory.get_messages
get_messages(memory) == BufferWindow(memory, WindowK)

\* ConversationMemory.get_memory_stats, the field total_messages
total_messages(memory) == Len(get_messages(memory))

\* ConversationMemory.add_message: save_context appends the two messages
add_message(memory) ==
  memory \o <<[type |-> "human", turn |-> Len(memory) \div 2 + 1],
              [type |-> "ai", turn |-> Len(memory) \div 2 + 1]>>

\* MemoryManager.get_memory: the memories after the call
get_memory(memories, session_id) ==
  IF session_id \in DOMAIN memories THEN memories ELSE DictSet(memories, session_id, <<>>)

NoResponse ==
  [status |-> 0, session_id |-> "-", total_messages |-> 0, existed |-> FALSE]

InitChat ==
  /\ store = Construct(1, "flat", AbsentIndexFile, AbsentMetaFile)
  /\ faissFile = AbsentIndexFile
  /\ metaFile = AbsentMetaFile
  /\ hist = Hist("init", TRUE, 0, "-")
  /\ tomb = [id \in Ids |-> "no"]
  /\ faults = 0
  /\ sp = NoSplit
  /\ rc = NoRetrieve
  /\ chat = [memories |-> NoDict,
             reported |-> [s \in SessionIds |-> -1],
             cleared |-> [s \in SessionIds |-> FALSE],
             last |-> NoResponse]
  /\ th = NoThreads

\* POST /chat answered with 200; session_id is the request's, or the uuid4
\* drawn for a request without one (then no memory has it)
Chat(session_id) ==
  /\ session_id \in DOMAIN chat.memories => Len(chat.memories[session_id]) < 2 * MaxTurns
  /\ LET memories == get_memory(chat.memories, session_id)
         memory == add_message(memories[session_id])
     IN chat' = [chat EXCEPT
                   !.memories = DictSet(memories, session_id, memory),
                   !.reported[session_id] = total_messages(memory),
                   !.cleared[session_id] = FALSE,
                   !.last = [status |-> 200, session_id |-> session_id,
                             total_messages |-> total_messages(memory),
                             existed |-> session_id \in DOMAIN chat.memories]]
  /\ UNCHANGED <<store, faissFile, metaFile, hist, tomb, faults, sp, rc, th>>

\* POST /chat answered with 500: the model call raised after get_memory and
\* before add_message
ChatError(session_id) ==
  /\ chat' = [chat EXCEPT
                !.memories = get_memory(chat.memories, session_id),
                !.last = [status |-> 500, session_id |-> "-", total_messages |-> 0,
                          existed |-> session_id \in DOMAIN chat.memories]]
  /\ UNCHANGED <<store, faissFile, metaFile, hist, tomb, faults, sp, rc, th>>

\* POST /chat/sessions/{session_id}/clear
ClearSessionMemory(session_id) ==
  /\ session_id \in DOMAIN chat.memories
  /\ chat' = [chat EXCEPT !.memories[session_id] = <<>>,
                          !.cleared[session_id] = TRUE,
                          !.last = NoResponse]
  /\ UNCHANGED <<store, faissFile, metaFile, hist, tomb, faults, sp, rc, th>>

\* DELETE /chat/sessions/{session_id}
ClearSession(session_id) ==
  /\ session_id \in DOMAIN chat.memories
  /\ chat' = [chat EXCEPT !.memories = DictDel(@, session_id),
                          !.reported[session_id] = -1,
                          !.cleared[session_id] = FALSE,
                          !.last = NoResponse]
  /\ UNCHANGED <<store, faissFile, metaFile, hist, tomb, faults, sp, rc, th>>

NextChat ==
  \/ \E s \in SessionIds : Chat(s)
  \/ \E s \in SessionIds : ChatError(s)
  \/ \E s \in SessionIds : ClearSessionMemory(s)
  \/ \E s \in SessionIds : ClearSession(s)

SpecChat == InitChat /\ [][NextChat]_vars

(***************************************************************************)
(* add_documents and similarity_search run by threads on one store, one    *)
(* statement at a time (vectorstore.py).  Neither the store nor its        *)
(* callers take a lock.                                                    *)
(***************************************************************************)
Adders == {"t1", "t2"}

\* the Document object the thread passes to add_documents
DocOf(t) == IF t = "t1" THEN Document(1) ELSE Document(2)

\* a thread outside add_documents; start_index is the local of line 120, i the
\* loop counter (from 1), read the value of next_index loaded by line 132
IdleAdder ==
  [pc |-> "idle", docs |-> <<>>, embs |-> <<>>, start_index |-> 0, i |-> 0, read |-> 0]

\* a thread outside similarity_search
IdleSearcher ==
  [pc |-> "idle", q |-> <<>>, k |-> 0, hits |-> <<>>, i |-> 0, results |-> <<>>]

InitRace ==
  /\ store = Construct(1, "flat", AbsentIndexFile, AbsentMetaFile)
  /\ faissFile = AbsentIndexFile
  /\ metaFile = AbsentMetaFile
  /\ hist = Hist("init", TRUE, 0, "-")
  /\ tomb = [id \in Ids |-> "no"]
  /\ faults = 0
  /\ sp = NoSplit
  /\ rc = NoRetrieve
  /\ chat = NoChat
  /\ th = [add |-> [t \in Adders |-> IdleAdder], search |-> IdleSearcher]

\* add_documents([doc], [emb]), lines 105-120: the checks, the training test
\* and start_index = self.next_index
AddBegin(t, emb) ==
  /\ th.add[t].pc = "idle"
  /\ store' = TrainIfNeeded(store, <<emb>>)
  /\ th' = [th EXCEPT !.add[t] = [IdleAdder EXCEPT !.pc = "index_add",
                                                   !.docs = <<DocOf(t)>>,
                                                   !.embs = <<emb>>,
                                                   !.start_index = store.next_index]]
  /\ UNCHANGED <<faissFile, metaFile, hist, tomb, faults, sp, rc, chat>>

\* line 121: self.index.add(embeddings_array)
AddIndexAdd(t) ==
  /\ th.add[t].pc = "index_add"
  /\ IF Len(th.add[t].embs[1]) # store.index.d \/ ~store.index.is_trained
     THEN /\ th' = [th EXCEPT !.add[t].pc = "raised"]
          /\ store' = store
     ELSE /\ store' = [store EXCEPT !.index.vecs = @ \o th.add[t].embs]
          /\ th' = [th EXCEPT !.add[t].pc = "doc", !.add[t].i = 1]
  /\ UNCHANGED <<faissFile, metaFile, hist, tomb, faults, sp, rc, chat>>

\* lines 125-126: doc.embedding = embeddings[i]; self.documents[doc.id] = doc
AddStoreDoc(t) ==
  /\ th.add[t].pc = "doc"
  /\ LET a == th.add[t]
         doc == [a.docs[a.i] EXCEPT !.embedding = a.embs[a.i]]
     IN store' = [store EXCEPT !.documents = DictSet(@, doc.id, doc)]
  /\ th' = [th EXCEPT !.add[t].pc = "forward"]
  /\ UNCHANGED <<faissFile, metaFile, hist, tomb, faults, sp, rc, chat>>

\* lines 128-129: self.id_to_index[doc.id] = start_index + i
AddForward(t) ==
  /\ th.add[t].pc = "forward"
  /\ LET a == th.add[t]
     IN store' = [store EXCEPT
                    !.id_to_index = DictSet(@, a.docs[a.i].id, a.start_index + (a.i - 1))]
  /\ th' = [th EXCEPT !.add[t].pc = "reverse"]
  /\ UNCHANGED <<faissFile, metaFile, hist, tomb, faults, sp, rc, chat>>

\* line 130: self.index_to_id[index_pos] = doc.id, and the loop test
AddReverse(t) ==
  /\ th.add[t].pc = "reverse"
  /\ LET a == th.add[t]
     IN /\ store' = [store EXCEPT
                       !.index_to_id = DictSet(@, a.start_index + (a.i - 1), a.docs[a.i].id)]
        /\ th' = [th EXCEPT !.add[t].i = a.i + 1,
                            !.add[t].pc = IF a.i + 1 > Len(a.docs) THEN "load_next" ELSE "doc"]
  /\ UNCHANGED <<faissFile, metaFile, hist, tomb, faults, sp, rc, chat>>

\* line 132, first half: self.next_index is loaded
AddLoadNext(t) ==
  /\ th.add[t].pc = "load_next"
  /\ th' = [th EXCEPT !.add[t].read = store.next_index, !.add[t].pc = "store_next"]
  /\ UNCHANGED <<store, faissFile, metaFile, hist, tomb, faults, sp, rc, chat>>

\* line 132, second half: the sum is stored in self.next_index
AddStoreNext(t) ==
  /\ th.add[t].pc = "store_next"
  /\ store' = [store EXCEPT !.next_index = th.add[t].read + Len(th.add[t].docs)]
  /\ th' = [th EXCEPT !.add[t].pc = "done"]
  /\ UNCHANGED <<faissFile, metaFile, hist, tomb, faults, sp, rc, chat>>

\* similarity_search(q, k), lines 141-145: the empty test
SearchBegin(q, k) ==
  /\ th.search.pc \in {"idle", "returned"}
  /\ th' = [th EXCEPT !.search =
              IF ntotal(store.index) = 0
              THEN [IdleSearcher EXCEPT !.pc = "returned", !.q = q, !.k = k]
              ELSE [IdleSearcher EXCEPT !.pc = "search", !.q = q, !.k = k]]
  /\ UNCHANGED <<store, faissFile, metaFile, hist, tomb, faults, sp, rc, chat>>

\* line 148: self.index.search(query_array, min(k, self.index.ntotal))
SearchIndex ==
  /\ th.search.pc = "search"
  /\ LET hits == Nearest(store.index, th.search.q, Min(th.search.k, ntotal(store.index)), {})
     IN th' = [th EXCEPT !.search.hits = hits,
                         !.search.i = 1,
                         !.search.pc = IF hits = <<>> THEN "returned" ELSE "loop"]
  /\ UNCHANGED <<store, faissFile, metaFile, hist, tomb, faults, sp, rc, chat>>

\* lines 151-164: one iteration of the loop over the hits
SearchHit ==
  /\ th.search.pc = "loop"
  /\ LET r == th.search
     IN th' = [th EXCEPT
                 !.search.results = @ \o Collect(store, <<r.hits[r.i]>>, NoDict),
                 !.search.i = r.i + 1,
                 !.search.pc = IF r.i + 1 > Len(r.hits) THEN "returned" ELSE "loop"]
  /\ UNCHANGED <<store, faissFile, metaFile, hist, tomb, faults, sp, rc, chat>>

NextRace ==
  \/ \E t \in Adders, emb \in Vec(1) : AddBegin(t, emb)
  \/ \E t \in Adders : AddIndexAdd(t)
  \/ \E t \in Adders : AddStoreDoc(t)
  \/ \E t \in Adders : AddForward(t)
  \/ \E t \in Adders : AddReverse(t)
  \/ \E t \in Adders : AddLoadNext(t)
  \/ \E t \in Adders : AddStoreNext(t)
  \/ \E q \in Vec(1), k \in 1..MaxK : SearchBegin(q, k)
  \/ SearchIndex
  \/ SearchHit

SpecRace == InitRace /\ [][NextRace]_vars

(***************************************************************************)
(* POST /upload (routes/upload.py) and POST /chat/rag/search               *)
(* (routes/chat.py) on one persist directory, in a server whose process    *)
(* may die inside save_index and is then started again.                    *)
(***************************************************************************)
FileChunkSize == 2           \* chunk_size of the document processor
FileChunkOverlap == 0        \* chunk_overlap of the document processor
DefaultMaxContext == 4000    \* qa_rag.py:16

\* contents of the uploaded text files, and the queries
FileTexts == {<<"a">>, <<"a", "a">>, <<"a", " ", "a", "a">>}

\* split_text, lines 67-91: the loop from the window start on
RECURSIVE SplitLoop(_, _, _, _, _)
SplitLoop(text, chunk_size, chunk_overlap, separator, start) ==
  IF start >= Len(text) THEN <<>>
  ELSE LET end == WindowEnd(text, chunk_size, separator, start)
           chunk == Strip(Slice(text, start, end))
       IN (IF chunk # <<>> THEN <<chunk>> ELSE <<>>)
            \o SplitLoop(text, chunk_size, chunk_overlap, separator,
                         NextStart(start, end, chunk_overlap))

\* TextSplitter.split_text
split_text(text, chunk_size, chunk_overlap, separator) ==
  IF Len(text) <= chunk_size THEN ShortText(text)
  ELSE SplitLoop(text, chunk_size, chunk_overlap, separator, 0)

\* the i-th uuid4 drawn by a call: an id the store does not hold
FreshId(s, i) == SetMax(DOMAIN s.documents \cup {MaxIds}) + i

\* the Document add_texts builds for the i-th chunk of an uploaded file
FileDocument(s, chunks, i) ==
  [id |-> FreshId(s, i), content |-> chunks[i],
   metadata |-> [file_type |-> "text", chunk_index |-> i - 1, total_chunks |-> Len(chunks)],
   embedding |-> NoEmbedding]

\* RAGSystem.add_document up to the call of add_documents: the documents and
\* the embeddings add_texts hands over
FileDocs(s, text) ==
  LET chunks == split_text(text, FileChunkSize, FileChunkOverlap, DefaultSeparator)
  IN [docs |-> [i \in 1..Len(chunks) |-> FileDocument(s, chunks, i)],
      embs |-> [i \in 1..Len(chunks) |-> Embed(chunks[i], s.dimension)]]

\* VectorStoreManager.similarity_search: (content, score) pairs
ManagerSearch(s, query, k) ==
  LET res == SimilaritySearch(s, Embed(query, s.dimension), k, NoDict)
  IN [i \in 1..Len(res) |-> [content |-> res[i].doc.content, score |-> res[i].distance]]

InitUpload ==
  /\ store = Construct(1, "flat", AbsentIndexFile, AbsentMetaFile)
  /\ faissFile = AbsentIndexFile
  /\ metaFile = AbsentMetaFile
  /\ hist = Hist("init", TRUE, 0, "-")
  /\ tomb = [id \in Ids |-> "no"]
  /\ faults = 0
  /\ sp = NoSplit
  /\ rc = Retriever(DefaultMaxContext)
  /\ chat = NoChat
  /\ th = NoThreads

\* no retrieve_context is in progress: the handlers run one after the other
NoSearchRunning == rc.pc \in {"idle", "returned"}

\* POST /upload of a text file: add_document splits the text, add_texts embeds
\* the chunks, calls add_documents and save_index; status is "processed" (ok)
\* unless an exception left add_document
Upload(text) ==
  /\ Running
  /\ NoSearchRunning
  /\ LET f == FileDocs(store, text)
         r == AddDocuments(store, f.docs, f.embs)
     IN /\ ntotal(store.index) + Len(f.docs) <= MaxSlots
        /\ store' = r.s
        /\ faissFile' = IF r.ok THEN WrittenIndexFile(r.s) ELSE faissFile
        /\ metaFile' = IF r.ok THEN WrittenMetaFile(r.s) ELSE metaFile
        /\ hist' = Hist("upload", r.ok, Len(f.docs), "-")
  /\ rc' = Retriever(DefaultMaxContext)
  /\ UNCHANGED <<tomb, faults, sp, chat, th>>

\* the same request in a process that dies inside save_index
UploadCrash(text, at) ==
  /\ Running
  /\ NoSearchRunning
  /\ faults < MaxFaults
  /\ LET f == FileDocs(store, text)
         r == AddDocuments(store, f.docs, f.embs)
     IN /\ ntotal(store.index) + Len(f.docs) <= MaxSlots
        /\ r.ok
        /\ store' = r.s
        /\ faissFile' = IF at = "index_partial"
                        THEN [state |-> "corrupt", index |-> NoIndexPayload]
                        ELSE WrittenIndexFile(r.s)
        /\ metaFile' = IF at = "meta_partial"
                       THEN [state |-> "corrupt", lacks |-> "none", data |-> NoMetaPayload]
                       ELSE metaFile
  /\ faults' = faults + 1
  /\ hist' = Hist("crash_" \o at, FALSE, 0, "-")
  /\ rc' = Retriever(DefaultMaxContext)
  /\ UNCHANGED <<tomb, sp, chat, th>>

\* the server is started again on the same directory
ServerStart ==
  /\ ~Running
  /\ store' = Construct(store.dimension, store.index_type, faissFile, metaFile)
  /\ hist' = Hist("restart", LoadedWhole(faissFile, metaFile), 0, hist.op)
  /\ UNCHANGED <<faissFile, metaFile, tomb, faults, sp, rc, chat, th>>

\* POST /chat/rag/search?query=..&k=..: retrieve_context up to line 186
SearchDocuments(query, k) ==
  /\ Running
  /\ NoSearchRunning
  /\ LET hits == ManagerSearch(store, query, k)
     IN rc' = IF hits = <<>>
              THEN [Retriever(DefaultMaxContext) EXCEPT !.pc = "returned"]
              ELSE [Retriever(DefaultMaxContext) EXCEPT !.pc = "loop", !.hits = hits, !.i = 1]
  /\ UNCHANGED <<store, faissFile, metaFile, hist, tomb, faults, sp, chat, th>>

\* the field total_found of the search response
total_found == Len(rc.source_docs)

NextUpload ==
  \/ \E text \in FileTexts : Upload(text)
  \/ \E text \in FileTexts, at \in {"index_partial", "between", "meta_partial"} :
       UploadCrash(text, at)
  \/ ServerStart
  \/ \E query \in FileTexts, k \in 1..MaxK : SearchDocuments(query, k)
  \/ RetrieveIterate
  \/ RetrieveReturn

SpecUpload == InitUpload /\ [][NextUpload]_vars

(***************************************************************************)
(* Properties of the vector store                                          *)
(***************************************************************************)
Filters == {NoDict, [source |-> "p"], [source |-> "q"]}
Ks == 1..MaxK
Queries(s) == Vec(s.index.d)

ResultIds(res) == {res[i].doc.id : i \in 1..Len(res)}

\* some similarity_search on s returns the document id
Returned(s, id) ==
  \E q \in Queries(s), k \in Ks, f \in Filters : id \in ResultIds(SimilaritySearch(s, q, k, f))

\* C1 as stated: once delete_document(id) has returned True and id has not been
\* added again, no similarity_search returns id, whatever add_documents,
\* delete_document, save_index and load_index calls follow.
C1_DeletedNeverReturnedAnySequence ==
  \A id \in Ids : tomb[id] # "no" => ~Returned(store, id)

\* C1 amended: once delete_document(id) has returned True, and as long as id has
\* not been added again and load_index has not run since, no similarity_search
\* (any query vector, any k, any filter) returns id; delete_document leaves
\* index.ntotal as it was, so the vector is still counted.
C1_DeletedNeverReturned ==
  /\ [](\A id \in Ids : tomb[id] = "deleted" => ~Returned(store, id))
  /\ [][hist'.op = "delete" => ntotal(store'.index) = ntotal(store.index)]_vars

\* a deleted document whose vector is still in the numeric store, with another
\* document stored beside it
C1_Witness ==
  /\ \E id \in Ids : tomb[id] = "deleted"
  /\ hist.op = "delete" /\ hist.ok
  /\ ntotal(store.index) = 2
  /\ Cardinality(DOMAIN store.documents) = 1

\* no stored document other than the one at slot has a vector equal to v
OnlyStoredCopy(s, slot, v) ==
  \A o \in DOMAIN s.index_to_id :
    (o # slot /\ s.index_to_id[o] \in DOMAIN s.documents) => s.index.vecs[o + 1] # v

\* C2: after add_documents([d], [v]), similarity_search(v, k=1) without a filter
\* returns exactly the pair (d, 0), also when the store holds vectors of deleted
\* documents; no vector is ever closer to v than v itself, and here no other
\* stored document is even as close.
C2_AddThenSearchFindsIt ==
  (hist.op = "add" /\ hist.ok /\ hist.n = 1) =>
    LET slot == store.next_index - 1
        id == store.index_to_id[slot]
        v == store.documents[id].embedding
    IN OnlyStoredCopy(store, slot, v) =>
         SimilaritySearch(store, v, 1, NoDict)
           = <<[doc |-> store.documents[id], distance |-> 0]>>

SearchView(res) ==
  [i \in 1..Len(res) |->
     [id |-> res[i].doc.id, content |-> res[i].doc.content, distance |-> res[i].distance]]

\* C3: save_index followed by the construction of a new store on the same
\* directory with the same arguments gives a store with the same get_stats()
\* and the same (id, content, distance) sequence for every query, k and filter.
C3_RoundTrip ==
  [][(/\ hist.op = "save"
      /\ hist'.op = "restart"
      /\ store'.dimension = store.dimension
      /\ store'.index_type = store.index_type)
     => /\ get_stats(store') = get_stats(store)
        /\ \A q \in Queries(store), k \in Ks, f \in Filters :
             SearchView(SimilaritySearch(store', q, k, f))
               = SearchView(SimilaritySearch(store, q, k, f))]_vars

\* a store rebuilt from a save that held one document and the vector of a
\* deleted one
C3_Witness ==
  /\ hist.op = "restart" /\ hist.prev = "save" /\ hist.ok
  /\ store.dimension = store.index.d
  /\ ntotal(store.index) = 2
  /\ Cardinality(DOMAIN store.documents) = 1

Empty(s) ==
  /\ s.documents = NoDict
  /\ s.id_to_index = NoDict
  /\ s.index_to_id = NoDict
  /\ s.next_index = 0
  /\ ntotal(s.index) = 0

\* C4: a store built on a directory where an artifact is missing, unreadable or
\* lacks a key is empty: no documents, no mappings, next_index = 0, ntotal = 0.
C4_FailedLoadLeavesEmptyStore ==
  (hist.op = "restart" /\ ~hist.ok) => Empty(store)

\* C5: after a crash inside save_index, here between the write of faiss.index
\* and the write of metadata.pkl, the store that load_index builds has
\* next_index equal to the number of stored vectors, and every mapped slot is a
\* slot of the numeric store that belongs to a stored document.
C5_CrashLeavesArtifactsConsistent ==
  (hist.op = "restart" /\ hist.prev = "crash_between") =>
    /\ store.next_index = ntotal(store.index)
    /\ \A id \in DOMAIN store.id_to_index :
         id \in DOMAIN store.documents /\ store.id_to_index[id] < ntotal(store.index)

\* C6: add_documents fails when the two lists differ in length or an embedding's
\* length differs from the store's dimension, and then leaves documents,
\* id_to_index, index_to_id, next_index and index.ntotal as they were.
BadBatch(s, ids, embs) ==
  \/ Len(ids) # Len(embs)
  \/ \E i \in 1..Len(embs) : Len(embs[i]) # s.dimension

C6_BadBatchFailsAndLeavesStore ==
  \A ids \in SeqsUpTo(Ids, MaxBatch), embs \in SeqsUpTo(Vectors, MaxBatch) :
    BadBatch(store, ids, embs) =>
      LET r == AddDocuments(store, [i \in 1..Len(ids) |-> Document(ids[i])], embs)
      IN /\ ~r.ok
         /\ r.s.documents = store.documents
         /\ r.s.id_to_index = store.id_to_index
         /\ r.s.index_to_id = store.index_to_id
         /\ r.s.next_index = store.next_index
         /\ ntotal(r.s.index) = ntotal(store.index)

(***************************************************************************)
(* Properties of split_text and add_text_content                           *)
(***************************************************************************)
Blank(text) == Solid(text) = {}
Finished == sp.pc \in {"added", "raised"}
Trimmed(chunk) == chunk # <<>> /\ Head(chunk) \notin Whitespace /\ chunk[Len(chunk)] \notin Whitespace

\* C7: add_text_content fails with an error and adds nothing to the vector
\* store for every text that is empty or only whitespace, whatever its length
\* relative to chunk_size.
C7_BlankTextFails ==
  (Finished /\ Blank(sp.text)) =>
    /\ sp.pc = "raised"
    /\ ntotal(store.index) = 0
    /\ store.documents = NoDict

\* C8: for every text T of at most chunk_size characters (the empty and the
\* whitespace-only text included) split_text(T) returns [T], T unmodified.
C8_ShortTextReturnedWhole ==
  (sp.pc \in {"returned", "added", "raised"} /\ Len(sp.text) <= sp.chunk_size) =>
    sp.chunks = <<sp.text>>

C8_Witness ==
  /\ sp.pc = "returned"
  /\ Len(sp.text) = 2
  /\ sp.chunk_size = 2
  /\ Head(sp.text) \in Whitespace
  /\ ~Blank(sp.text)

\* C9 as stated: every chunk returned by split_text, for every text, chunk_size,
\* overlap and separator, is non-empty and has no leading or trailing whitespace.
C9_EveryChunkTrimmed ==
  sp.pc \in {"returned", "added", "raised"} =>
    \A i \in 1..Len(sp.chunks) : Trimmed(sp.chunks[i])

\* C9 amended: every chunk returned by split_text for a text longer than
\* chunk_size is non-empty and has no leading or trailing whitespace (the chunks
\* appended so far have the property at every iteration of the loop).
C9_LongTextChunksTrimmed ==
  Len(sp.text) > sp.chunk_size =>
    \A i \in 1..Len(sp.chunks) : Trimmed(sp.chunks[i])

C9_Witness ==
  /\ sp.pc = "returned"
  /\ Len(sp.text) > sp.chunk_size
  /\ Len(sp.chunks) >= 2
  /\ \E i \in 1..Len(sp.wins) :
       /\ sp.wins[i].offset > sp.wins[i].start
       /\ Len(sp.chunks[i]) + (sp.wins[i].offset - sp.wins[i].start) < sp.wins[i].end - sp.wins[i].start

\* the window start strictly increases from one iteration of the loop to the next
WindowStartAdvances == [][sp.pc = "loop" => sp'.start > sp.start]_vars

\* C10: the window start strictly increases from one iteration to the next, so
\* the start offsets of the emitted chunks in the original text are strictly
\* increasing, with no duplicates.
C10_ChunkOffsetsStrictlyIncrease ==
  \A i, j \in 1..Len(sp.wins) : i < j => sp.wins[i].offset < sp.wins[j].offset

\* C11: split_text terminates for every text, chunk_size, overlap and
\* separator: a call that is in the loop returns, and the loop never runs more
\* than len(text) iterations.
C11_SplitTerminates ==
  /\ [](sp.iters <= Len(sp.text))
  /\ (sp.pc = "loop") ~> (sp.pc = "returned")

C11_Witness ==
  /\ sp.pc = "returned"
  /\ sp.iters = Len(sp.text)
  /\ Len(sp.text) = MaxText
  /\ sp.chunk_overlap >= sp.chunk_size
  /\ Solid(sp.text) = 1..MaxText

(***************************************************************************)
(* Properties of retrieve_context                                          *)
(***************************************************************************)
\* characters of the first i contents of the hit sequence
RECURSIVE LenSum(_, _)
LenSum(hits, i) == IF i = 0 THEN 0 ELSE LenSum(hits, i - 1) + Len(hits[i].content)

\* position of the first hit whose full content does not fit in what is left
\* of the budget, Len(hits) + 1 when all fit
FirstMisfit(hits, max) ==
  LET over == {i \in 1..Len(hits) : LenSum(hits, i) > max}
  IN IF over = {} THEN Len(hits) + 1 ELSE SetMin(over)

\* C12: the context string returned by retrieve_context, labels and separators
\* included, never has more characters than max_context_length.
C12_ContextWithinBudget ==
  rc.pc = "returned" => Len(rc.context_string) <= rc.max_context_length

\* C13: with max_context_length = 0 retrieve_context returns the empty context
\* string and no source, whatever the hits, hits of empty content included.
C13_ZeroBudgetReturnsNothing ==
  (rc.pc = "returned" /\ rc.max_context_length = 0) =>
    (rc.context_string = <<>> /\ rc.source_docs = <<>>)

\* C14: the rendered hits are a prefix of the hit sequence: the hits before the
\* first one that does not fit are rendered whole, that one is rendered iff the
\* remaining budget is above 100, as a prefix of its content plus "..." of
\* exactly the remaining budget's length, and nothing after it is rendered.
C14_RenderedPrefix ==
  rc.pc = "returned" =>
    LET fm == FirstMisfit(rc.hits, rc.max_context_length)
        remaining == rc.max_context_length - LenSum(rc.hits, fm - 1)
        parts == rc.context_parts
    IN /\ Len(parts) =
            IF fm <= Len(rc.hits) /\ remaining > MinPartialSpace THEN fm ELSE fm - 1
       /\ \A i \in 1..(fm - 1) : parts[i] = Label(i) \o rc.hits[i].content
       /\ Len(parts) = fm =>
            \E n \in 0..Len(rc.hits[fm].content) :
              /\ parts[fm] = Label(fm) \o SubSeq(rc.hits[fm].content, 1, n) \o Ellipsis
              /\ n + 3 = remaining
       /\ rc.context_string = Join(parts, Blankline)

C14_Witness ==
  /\ rc.pc = "returned"
  /\ Len(rc.hits) = 3
  /\ Len(rc.context_parts) = 2
  /\ Len(rc.source_docs) = 1
  /\ rc.total_length + Len(rc.hits[3].content) <= rc.max_context_length

\* C15: the source list holds exactly the hits rendered in full, in hit order,
\* each with its distance and with rank = its position in the hit sequence =
\* the N of its label; a truncated hit is rendered but not listed, so there
\* are as many rendered blocks as sources, or one more.
C15_SourcesAreFullHits ==
  rc.pc = "returned" =>
    LET fm == FirstMisfit(rc.hits, rc.max_context_length)
        src == rc.source_docs
    IN /\ src = [i \in 1..(fm - 1) |->
                   [content |-> rc.hits[i].content,
                    similarity_score |-> rc.hits[i].score, rank |-> i]]
       /\ \A i \in 1..Len(src) :
            rc.context_parts[i] = Label(src[i].rank) \o src[i].content
       /\ Len(rc.context_parts) - Len(src) \in {0, 1}
       /\ Len(rc.context_parts) = Len(src) + 1 =>
            rc.context_parts[Len(src) + 1]
              # Label(Len(src) + 1) \o rc.hits[Len(src) + 1].content

C15_Witness ==
  /\ rc.pc = "returned"
  /\ Len(rc.source_docs) = 2
  /\ Len(rc.context_parts) = 3
  /\ rc.source_docs[2].similarity_score = ScoreOf(2)

(***************************************************************************)
(* More properties of the vector store                                     *)
(***************************************************************************)
\* C16: delete_document(id) returns True exactly when id was stored; it then
\* removes the document, id_to_index[id] and index_to_id[slot] and leaves
\* index.ntotal, next_index and every other document and mapping entry as they
\* were; for an unknown id it returns False, raises nothing, changes nothing.
C16_DeleteFrame ==
  \A id \in Ids :
    LET r == DeleteDocument(store, id)
        stored == id \in DOMAIN store.documents
    IN /\ r.ok = stored
       /\ ~r.raised
       /\ ~stored => r.s = store
       /\ stored =>
            LET slot == store.id_to_index[id]
            IN /\ id \notin DOMAIN r.s.documents
               /\ id \notin DOMAIN r.s.id_to_index
               /\ slot \notin DOMAIN r.s.index_to_id
               /\ r.s.documents = DictDel(store.documents, id)
               /\ r.s.id_to_index = DictDel(store.id_to_index, id)
               /\ r.s.index_to_id = DictDel(store.index_to_id, slot)
               /\ r.s.index = store.index
               /\ r.s.next_index = store.next_index

C16_Witness ==
  /\ hist.op = "delete"
  /\ hist.ok
  /\ ntotal(store.index) = 2
  /\ store.next_index = 2
  /\ DOMAIN store.index_to_id = {0}
  /\ \E id \in Ids : DOMAIN store.documents = {id} /\ store.id_to_index[id] = 0

\* filters handed to similarity_search, one of them with the value None
NoneValue == "None"
FiltersWithNone == (Filters \ {NoDict}) \cup {[topic |-> NoneValue]}

\* doc carries every key of the filter with the filter's value
CarriesFilter(doc, filter) ==
  \A key \in DOMAIN filter :
    key \in DOMAIN doc.metadata /\ doc.metadata[key] = filter[key]

\* C17: every document returned by similarity_search with a non-empty filter
\* has every key of the filter in its metadata with exactly the filter's value;
\* the filter is applied to the k nearest candidates only, so the result is a
\* part of the unfiltered result for the same k.
C17_FilteredHitsCarryFilter ==
  \A q \in Queries(store), k \in Ks, f \in FiltersWithNone :
    LET res == SimilaritySearch(store, q, k, f)
        all == SimilaritySearch(store, q, k, NoDict)
    IN /\ \A i \in 1..Len(res) : CarriesFilter(res[i].doc, f)
       /\ Len(res) <= k
       /\ \A i \in 1..Len(res) : \E j \in 1..Len(all) : all[j] = res[i]

\* the same for filters whose values are not None
C17_PlainFiltersHold ==
  \A q \in Queries(store), k \in Ks, f \in Filters \ {NoDict} :
    LET res == SimilaritySearch(store, q, k, f)
        all == SimilaritySearch(store, q, k, NoDict)
    IN /\ \A i \in 1..Len(res) : CarriesFilter(res[i].doc, f)
       /\ \A i \in 1..Len(res) : \E j \in 1..Len(all) : all[j] = res[i]

\* C18: after a successful add_text_content the result's document_ids are
\* chunks_created pairwise distinct ids that were not in the store before, the
\* store holds chunks_created more documents, and the i-th id maps to a stored
\* document whose content is the i-th chunk.
C18_IngestResult ==
  sp.pc = "added" =>
    LET ids == sp.result.document_ids
        n == sp.result.chunks_created
    IN /\ n = Len(sp.chunks)
       /\ Len(ids) = n
       /\ \A i, j \in 1..n : i # j => ids[i] # ids[j]
       /\ \A i \in 1..n : ids[i] \notin sp.before
       /\ Cardinality(DOMAIN store.documents) = Cardinality(sp.before) + n
       /\ \A i \in 1..n :
            ids[i] \in DOMAIN store.documents /\ store.documents[ids[i]].content = sp.chunks[i]

C18_Witness ==
  /\ sp.pc = "added"
  /\ Cardinality(sp.before) = 2
  /\ sp.result.chunks_created = 3
  /\ sp.chunks[1] # sp.chunks[2]

\* some similarity_search on s, with k up to the size of the index, returns id
Findable(s, id) ==
  \E q \in Queries(s), k \in 1..ntotal(s.index) :
    id \in ResultIds(SimilaritySearch(s, q, k, NoDict))

\* C19: on a store built with index_type "ivf" whose index is untrained,
\* add_documents of a batch below the training threshold does not fail: the
\* index is replaced by a flat one, the batch is added and can be found by
\* search, and the vectors stored before are all still there.
C19_SmallBatchFallsBackToFlat ==
  (store.index_type = "ivf" /\ ~store.index.is_trained) =>
    \A ids \in SeqsUpTo(Ids, MaxBatch) \ {<<>>} :
      \A embs \in [1..Len(ids) -> Vec(store.dimension)] :
        LET docs == [i \in 1..Len(ids) |-> Document(ids[i])]
            r == AddDocuments(store, docs, embs)
        IN /\ r.ok
           /\ r.s.index.kind = "flat"
           /\ r.s.index.vecs = store.index.vecs \o embs
           /\ \A i \in 1..Len(ids) :
                /\ ids[i] \in DOMAIN r.s.documents
                /\ Findable(r.s, ids[i])

C19_Witness ==
  /\ store.index_type = "ivf"
  /\ hist.op = "add"
  /\ hist.ok
  /\ hist.n = 2
  /\ store.index.kind = "flat"
  /\ ntotal(store.index) = 2
  /\ \A id \in Ids : Findable(store, id)

(***************************************************************************)
(* Properties of the chat route                                            *)
(***************************************************************************)
\* the step is a chat turn, answered with 200, on a session that existed and
\* had a turn before
LaterTurn(s) ==
  /\ chat'.last.status = 200
  /\ chat'.last.session_id = s
  /\ chat'.last.existed
  /\ chat.reported[s] >= 0
  /\ chat'.memories[s] # chat.memories[s]

HasEmbedding(s, id) == id \in DOMAIN s.documents /\ s.documents[id].embedding # NoEmbedding

\* id_to_index[id] = slot if and only if index_to_id[slot] = id
TablesAgree(s) ==
  /\ \A id \in DOMAIN s.id_to_index :
       /\ s.id_to_index[id] \in DOMAIN s.index_to_id
       /\ s.index_to_id[s.id_to_index[id]] = id
  /\ \A slot \in DOMAIN s.index_to_id :
       /\ s.index_to_id[slot] \in DOMAIN s.id_to_index
       /\ s.id_to_index[s.index_to_id[slot]] = slot

\* C22: in every state reachable by add_documents, delete_document, save_index
\* and load_index the two position tables agree in both directions, every
\* stored document with an embedding has its position entry, and every position
\* entry belongs to a stored document that has an embedding.
C22_PositionTablesConsistent ==
  /\ TablesAgree(store)
  /\ \A id \in DOMAIN store.documents :
       HasEmbedding(store, id) => id \in DOMAIN store.id_to_index
  /\ \A id \in DOMAIN store.id_to_index : HasEmbedding(store, id)
  /\ \A slot \in DOMAIN store.index_to_id : HasEmbedding(store, store.index_to_id[slot])

\* the vector at the slot recorded for id is the embedding of the document id
OwnVectorAtSlot(s, id) ==
  /\ s.id_to_index[id] < ntotal(s.index)
  /\ HasEmbedding(s, id) => s.index.vecs[s.id_to_index[id] + 1] = s.documents[id].embedding

\* C23: in every state reachable by add_documents, delete_document, save_index
\* and load_index, loads that fail part-way included, next_index equals
\* index.ntotal, and the slot recorded in id_to_index for a stored document is
\* the position of that document's own vector in the numeric store.
C23_NextIndexIsNtotal ==
  /\ store.next_index = ntotal(store.index)
  /\ \A id \in DOMAIN store.id_to_index : OwnVectorAtSlot(store, id)

\* C26: after load_index (called on the live store or by the constructor) the
\* store's dimension is the dimension of the numeric index in use, whatever
\* dimension the artifacts were written with, and add_documents accepts
\* exactly the vectors whose length is the store's dimension.
C26_LoadKeepsDimension ==
  hist.op \in {"load", "restart"} =>
    /\ store.dimension = store.index.d
    /\ \A id \in Ids, v \in Vectors :
         AddDocuments(store, <<Document(id)>>, <<v>>).ok <=> (Len(v) = store.dimension)

\* C30: in every reachable state similarity_search with k >= 1 and no filter
\* returns exactly min(k, number of stored documents) results, also when
\* vectors of deleted documents remain in the numeric store (checked here only
\* in the states where no document was added twice: the tables agree).
C30_SearchReturnsMinKStored ==
  TablesAgree(store) =>
    \A q \in Queries(store), k \in Ks :
      Len(SimilaritySearch(store, q, k, NoDict)) = Min(k, Cardinality(DOMAIN store.documents))

(***************************************************************************)
(* More properties of split_text                                           *)
(***************************************************************************)
\* where the cut of the window [start, start + chunk_size) belongs: just after
\* the last separator inside the window, else just after the last '.', else
\* just after the last space, else at the window boundary
ExpectedCut(text, chunk_size, separator, start) ==
  LET end == start + chunk_size
      b1 == RFind(text, separator, start, end)
      b2 == RFind(text, <<".">>, start, end)
      b3 == RFind(text, <<" ">>, start, end)
  IN IF b1 # -1 THEN b1 + Len(separator)
     ELSE IF b2 # -1 THEN b2 + 1
     ELSE IF b3 # -1 THEN b3 + 1
     ELSE end

\* C25: for each window of split_text that does not reach the end of the text
\* the cut is just after the last separator inside the window; only if there is
\* none, just after the last '.'; only if there is neither, just after the last
\* space; and only if there is none of the three, at start + chunk_size.
C25_CutAfterLastBreak ==
  (sp.pc = "loop" /\ sp.start + sp.chunk_size < Len(sp.text)) =>
    WindowEnd(sp.text, sp.chunk_size, sp.separator, sp.start)
      = ExpectedCut(sp.text, sp.chunk_size, sp.separator, sp.start)

\* C27: every chunk returned by split_text has at most chunk_size characters,
\* for every text, chunk_size >= 1, overlap >= 0 and separator.
C27_ChunkWithinChunkSize ==
  sp.pc \in {"returned", "added", "raised"} =>
    \A i \in 1..Len(sp.chunks) : Len(sp.chunks[i]) <= sp.chunk_size

\* the range of the text the i-th emitted chunk covers: [from, to)
ChunkFrom(i) == sp.wins[i].offset
ChunkTo(i) == sp.wins[i].offset + Len(sp.chunks[i])

\* C29: once a window that extends to the end of the text has been emitted no
\* further chunk is emitted, and no chunk covers a range of the text that lies
\* entirely inside the range of the chunk emitted just before it.
C29_NoChunkAfterTheEnd ==
  Len(sp.text) > sp.chunk_size =>
    /\ \A i \in 1..Len(sp.wins) : sp.wins[i].end >= Len(sp.text) => i = Len(sp.wins)
    /\ \A i \in 1..(Len(sp.wins) - 1) :
         ~(ChunkFrom(i) <= ChunkFrom(i + 1) /\ ChunkTo(i + 1) <= ChunkTo(i))

\* the character at position p (from 1) of the text is in a returned chunk
Covered(p) ==
  IF Len(sp.text) <= sp.chunk_size
  THEN sp.chunks = <<sp.text>>
  ELSE \E i \in 1..Len(sp.wins) :
         /\ ChunkFrom(i) < p /\ p <= ChunkTo(i)
         /\ sp.chunks[i] = SubSeq(sp.text, ChunkFrom(i) + 1, ChunkTo(i))

\* C28: for overlap >= 0 consecutive windows of split_text leave no gap: the
\* first window starts at 0, each next window starts at or before the end of
\* the window before it, the last window ends at or after len(text), and so
\* every non-whitespace character of the text is in at least one returned chunk.
C28_WindowsLeaveNoGap ==
  /\ []((sp.pc = "loop" /\ sp.iters = 0) => sp.start = 0)
  /\ [][sp.pc = "loop" =>
          LET end == WindowEnd(sp.text, sp.chunk_size, sp.separator, sp.start)
          IN /\ sp'.start <= end
             /\ sp'.pc = "returned" => end >= Len(sp.text)]_vars
  /\ [](sp.pc = "returned" => \A p \in Solid(sp.text) : Covered(p))

C28_Witness ==
  /\ sp.pc = "returned"
  /\ Len(sp.text) = MaxText
  /\ sp.chunk_overlap = 0
  /\ Len(sp.chunks) = 2
  /\ sp.iters = 3
  /\ Cardinality(Solid(sp.text)) = 2

(***************************************************************************)
(* Properties of interleaved calls                                         *)
(***************************************************************************)
\* no two documents are recorded at the same slot
DistinctSlots(s) ==
  \A a, b \in DOMAIN s.id_to_index : a # b => s.id_to_index[a] # s.id_to_index[b]

\* every pair the search has collected carries the distance between the query
\* and the vector of its own document
OwnDistances ==
  \A i \in 1..Len(th.search.results) :
    th.search.results[i].distance
      = SqDist(th.search.q, th.search.results[i].doc.embedding)

\* C24: when two add_documents calls, or an add_documents and a
\* similarity_search, run on one store with their statements interleaved, no
\* two documents are recorded at the same slot and no search returns a document
\* paired with the distance of another document's vector.
C24_InterleavedCallsAreSafe ==
  /\ DistinctSlots(store)
  /\ OwnDistances

(***************************************************************************)
(* Properties of upload followed by search                                 *)
(***************************************************************************)
\* C21: after an upload that returned status "processed", a RAG search with
\* k >= 1 returns total_found > 0, whatever state the vector store was in
\* before the upload.
C21_SearchAfterUploadFindsSomething ==
  (hist.op = "upload" /\ hist.ok /\ rc.pc = "returned") => total_found > 0

====
